---- MODULE Spec2Model ----
(***************************************************************************)
(* State-machine model of LakeshoreF41TangoMotorController.py: the motor   *)
(* controller (axis 0 closed loop, axis 1 open loop) and the counter       *)
(* controller.                                                             *)
(*                                                                         *)
(* Numbers.  Python floats are modelled as exact fixed-point numbers: a    *)
(* value v (mT, A, T, a ratio) is the integer 1000 * v, and a time of t    *)
(* seconds is the integer 1000 * t (milliseconds).  The inputs are chosen  *)
(* so that every product and quotient the code forms is exact in this      *)
(* representation; float rounding is not modelled.                         *)
(*                                                                         *)
(* The proxy.  The remote device is external.  Its writable attributes     *)
(* (OpenLoop, SetpointField, SetpointOpenLoop, FieldControl) are modelled  *)
(* as stored values: a read returns the last value written.  Tango         *)
(* attribute names are case-insensitive, so SetPointField, SetpointField   *)
(* and setpointopenloop/SetPointOpenLoop name the same attributes.  The    *)
(* measured MagneticField is an input of every read, and in the runs with  *)
(* proxy_fails every proxy access may raise.                               *)
(*                                                                         *)
(* Specifications.  The handlers are explored in several environments over *)
(* the same state: Spec (both axes with the clock, proxy never raising),   *)
(* SpecClosedLoop and SpecOpenLoop (one axis with the clock, its settings  *)
(* and a proxy that may raise), SpecInstant (both axes at one instant, a   *)
(* proxy that may raise), SpecProxy (the handlers that talk to the proxy,  *)
(* never raising), SpecDevice (both axes with the clock and the custom     *)
(* commands, proxy never raising) and SpecCounter (the counter             *)
(* controller).                                                            *)
(***************************************************************************)
EXTENDS Integers, Sequences, FiniteSets, TLC

VARIABLES
    now,        \* time.time(), in ms
    motors,     \* self._motors: axis -> record
    th_rel,     \* self._th_rel
    th_abs,     \* self._th_abs
    OL_waittime,\* self._OL_waittime, in ms
    proxy,      \* the stored attributes of the device
    proxy_fails,\* environment: whether proxy accesses can raise in this run
    lastStart,  \* history: the last StartOne call whose three writes succeeded
    last,       \* observation: the last handler call and what it returned
    acquire,    \* counter controller: self._acquire
    npts,       \* counter controller: self._npts
    field_values, \* counter controller: self.field_values
    timestamps  \* counter controller: self.timestamps

counterVars == <<acquire, npts, field_values, timestamps>>

\* Left alone by every handler of the motor controller.
motorFrame == <<proxy_fails, counterVars>>

vars == <<now, motors, th_rel, th_abs, OL_waittime, proxy, proxy_fails,
          lastStart, last, acquire, npts, field_values, timestamps>>

----------------------------------------------------------------------------
(* Bounds and input sets *)

\* Number of clock readings after the first one.
MaxReadings == 4

\* The clock readings the handlers are run at (ms): they put polls before,
\* at and after the 1 s and 10 s move times and the 20 s timeout of a start
\* at 0 s, and 9 s, 19 s and 20 s after a start at 1 s.
Schedule == <<0, 1000, 10000, 20000, 21000>>

ClockReading(k) ==
    IF k < Len(Schedule) THEN Schedule[k + 1]
    ELSE Schedule[Len(Schedule)] + 1000 * (k - Len(Schedule) + 1)

Axes == {0, 1}

\* Commanded positions: mT for axis 0, A for axis 1.
Positions(axis) == IF axis = 0 THEN {-10000, 100000} ELSE {0, 1000, 5000}

\* Values of proxy.MagneticField (T): 0 T and 0.101 T.
Fields == {0, 101}

\* Values written by the attribute setters.
ThRelValues == {20, 200}
ThAbsValues == {500, 2000}
OLWaitValues == {200, 15000}

----------------------------------------------------------------------------
(* Pure functions *)

Abs(x) == IF x < 0 THEN -x ELSE x
Min(a, b) == IF a < b THEN a ELSE b
Max(a, b) == IF a > b THEN a ELSE b

\* 1e3 * x
Mul1e3Unscaled(x) == x

Mul1e3(x) == 1000 * x

\* 1e-3 * x (exact: the positions of axis 0 are whole mT)
Mul1em3Unscaled(x) == x

Mul1em3(x) == x \div 1000


\* self._timeout = 20 (s)
Timeout == 20000

\* Defaults set by __init__.
DefaultThRel == 20
DefaultThAbs == 500
DefaultOLWait == 200

\* diff_rel > self._th_rel, where diff_rel = diff_abs / target, or 1 when the
\* division raises ZeroDivisionError.  diff_abs >= 0; the comparison of the
\* quotient is made by cross-multiplication, the sign of target kept.
DiffRelExceeds(diff_abs, target, rel) ==
    IF target = 0 THEN 1000 > rel
    ELSE IF target > 0 THEN 1000 * diff_abs > rel * target
    ELSE 1000 * diff_abs < rel * target

\* The "outside threshold" test of StateOne.
OutsideThreshold(pos, target, rel, abs) ==
    DiffRelExceeds(Abs(pos - target), target, rel) /\ Abs(pos - target) > abs

\* (now - start_time) < self._timeout
NoTimeoutInclusive(t, start_time) == (t - start_time) <= Timeout

NoTimeout(t, start_time) == (t - start_time) < Timeout

\* now < move_end_time
OpenLoopWaitingInclusive(t, end_time) == t <= end_time

OpenLoopWaiting(t, end_time) == t < end_time

\* min(max(1, 3 * abs(target - position)), 10), in ms
MoveTimeUnclamped(target, position) == Max(1000, 3 * Abs(target - position))

MoveTime(target, position) ==
    Min(Max(1000, 3 * Abs(target - position)), 10000)

----------------------------------------------------------------------------
(* Axis records *)

\* An axis that is not a key of self._motors.
NoAxis ==
    [present |-> FALSE, has_target |-> FALSE, is_moving |-> FALSE,
     move_start_time |-> 0, move_end_time |-> 0, target |-> 0]

\* The record AddDevice has built when the proxy read is reached: no "target".
FreshAxis ==
    [present |-> TRUE, has_target |-> FALSE, is_moving |-> FALSE,
     move_start_time |-> 0, move_end_time |-> 0, target |-> 0]

\* self._motors[axis] exists and has every key.
CompleteUnchecked(axis) == TRUE

Complete(axis) == motors[axis].present /\ motors[axis].has_target

\* self._motors[axis]["is_moving"] == False
NotMovingInClosedLoop(axis) ==
    motors[axis].is_moving = FALSE \/ proxy.OpenLoop = 0

NotMoving(axis) == motors[axis].is_moving = FALSE

\* What StopOne(0) assigns once the field is read.
StoppedRecordStillMoving(m, curr) ==
    [m EXCEPT !.target = curr, !.has_target = TRUE]

StoppedRecord(m, curr) ==
    [m EXCEPT !.target = curr, !.has_target = TRUE, !.is_moving = FALSE]

\* What StartOne assigns after the proxy writes.
StartedRecord(m, t, position) ==
    [m EXCEPT !.move_start_time = t,
              !.move_end_time = MoveTime(m.target, position) + t,
              !.is_moving = TRUE,
              !.target = position]

----------------------------------------------------------------------------
(* Observations *)

Exceptions == {"KeyError", "DevFailed", "TypeError", "NameError"}

Obs(op, axis, ret, value, reads, fields, writes) ==
    [op |-> op, axis |-> axis, ret |-> ret, value |-> value,
     reads |-> reads, fields |-> fields, writes |-> writes]

\* Whether a proxy access succeeds.
Outcomes == IF proxy_fails THEN BOOLEAN ELSE {TRUE}

\* How many of the three writes of StartOne succeed.
WritesDone == IF proxy_fails THEN 0..3 ELSE {3}

NoCall == Obs("init", -1, "none", 0, <<>>, <<>>, <<>>)

Raised == last.ret \in Exceptions

----------------------------------------------------------------------------
(* Motor controller *)

MotorInit ==
    /\ now = ClockReading(0)
    /\ motors = [a \in Axes |-> NoAxis]
    /\ th_rel = DefaultThRel
    /\ th_abs = DefaultThAbs
    /\ OL_waittime = DefaultOLWait
    /\ proxy \in [OpenLoop : {0, 1}, SetpointField : {0},
                  SetpointOpenLoop : {0}, FieldControl : {0}]
    /\ proxy_fails \in BOOLEAN
    /\ lastStart = [axis |-> -1, position |-> 0]
    /\ last = NoCall

CounterIdle ==
    /\ npts = 1
    /\ acquire = FALSE
    /\ field_values = <<>>
    /\ timestamps = <<>>

Init == MotorInit /\ CounterIdle

\* The runs in which no proxy access raises.
InitReliable == Init /\ ~proxy_fails

\* time.time() returns a later reading.
Tick ==
    /\ \E k \in 0..MaxReadings : ClockReading(k) > now /\ now' = ClockReading(k)
    /\ last' = Obs("time", -1, "none", 0, <<>>, <<>>, <<>>)
    /\ UNCHANGED <<motors, th_rel, th_abs, OL_waittime, proxy, lastStart,
                   motorFrame>>

AddDevice(axis) ==
    /\ \E ok \in Outcomes :
         LET attr == IF axis = 0 THEN "SetpointField" ELSE "SetpointOpenLoop" IN
         IF ok
         THEN /\ motors' = [motors EXCEPT ![axis] =
                    [FreshAxis EXCEPT !.has_target = TRUE, !.target = proxy[attr]]]
              /\ last' = Obs("AddDevice", axis, "None", 0, <<attr>>, <<>>, <<>>)
         ELSE /\ motors' = [motors EXCEPT ![axis] = FreshAxis]
              /\ last' = Obs("AddDevice", axis, "DevFailed", 0, <<attr>>, <<>>, <<>>)
    /\ UNCHANGED <<now, th_rel, th_abs, OL_waittime, proxy, lastStart, motorFrame>>

DeleteDevice(axis) ==
    /\ IF motors[axis].present
       THEN /\ motors' = [motors EXCEPT ![axis] = NoAxis]
            /\ last' = Obs("DeleteDevice", axis, "None", 0, <<>>, <<>>, <<>>)
       ELSE /\ motors' = motors
            /\ last' = Obs("DeleteDevice", axis, "KeyError", 0, <<>>, <<>>, <<>>)
    /\ UNCHANGED <<now, th_rel, th_abs, OL_waittime, proxy, lastStart, motorFrame>>

StateOne(axis) ==
    LET m == motors[axis]
        R == <<"MagneticField">>
        RR == <<"MagneticField", "MagneticField">>
    IN
    /\ IF ~Complete(axis)
       THEN \* self._motors[axis]["target"] raises before the try block
            /\ motors' = motors
            /\ last' = Obs("StateOne", axis, "KeyError", 0, <<>>, <<>>, <<>>)
       ELSE IF NotMoving(axis)
       THEN /\ motors' = motors
            /\ last' = Obs("StateOne", axis, "ON", 0, <<>>, <<>>, <<>>)
       ELSE IF axis = 0
       THEN \E ok1 \in Outcomes, f1 \in Fields :
              IF ~ok1
              THEN /\ motors' = motors
                   /\ last' = Obs("StateOne", axis, "FAULT", 0, R, <<>>, <<>>)
              ELSE IF OutsideThreshold(Mul1e3(f1), m.target, th_rel, th_abs)
              THEN IF NoTimeout(now, m.move_start_time)
                   THEN /\ motors' = motors
                        /\ last' = Obs("StateOne", axis, "MOVING", 0, R, <<f1>>, <<>>)
                   ELSE \E ok2 \in Outcomes, f2 \in Fields :
                          IF ~ok2
                          THEN /\ motors' = motors
                               /\ last' = Obs("StateOne", axis, "FAULT", 0, RR,
                                              <<f1>>, <<>>)
                          ELSE /\ motors' = [motors EXCEPT ![axis] =
                                     StoppedRecord(m, Mul1e3(f2))]
                               /\ last' = Obs("StateOne", axis, "ON", 0, RR,
                                              <<f1, f2>>, <<>>)
              ELSE /\ motors' = [motors EXCEPT ![axis].is_moving = FALSE]
                   /\ last' = Obs("StateOne", axis, "ON", 0, R, <<f1>>, <<>>)
       ELSE IF OpenLoopWaiting(now, m.move_end_time)
            THEN /\ motors' = motors
                 /\ last' = Obs("StateOne", axis, "MOVING", 0, <<>>, <<>>, <<>>)
            ELSE /\ motors' = [motors EXCEPT ![axis].is_moving = FALSE]
                 /\ last' = Obs("StateOne", axis, "ON", 0, <<>>, <<>>, <<>>)
    /\ UNCHANGED <<now, th_rel, th_abs, OL_waittime, proxy, lastStart, motorFrame>>


ReadOne(axis) ==
    /\ IF axis = 0
       THEN \E ok \in Outcomes, f \in Fields :
              last' = IF ok
                      THEN Obs("ReadOne", axis, "value", Mul1e3(f),
                               <<"MagneticField">>, <<f>>, <<>>)
                      ELSE Obs("ReadOne", axis, "DevFailed", 0,
                               <<"MagneticField">>, <<>>, <<>>)
       ELSE \E ok1 \in Outcomes, ok2 \in Outcomes :
              last' = IF ~ok1
                      THEN Obs("ReadOne", axis, "DevFailed", 0,
                               <<"OpenLoop">>, <<>>, <<>>)
                      ELSE IF proxy.OpenLoop # 1
                      THEN Obs("ReadOne", axis, "None", 0,
                               <<"OpenLoop">>, <<>>, <<>>)
                      ELSE IF ~ok2
                      THEN Obs("ReadOne", axis, "DevFailed", 0,
                               <<"OpenLoop", "SetpointOpenLoop">>, <<>>, <<>>)
                      ELSE Obs("ReadOne", axis, "value", proxy.SetpointOpenLoop,
                               <<"OpenLoop", "SetpointOpenLoop">>, <<>>, <<>>)
    /\ UNCHANGED <<now, motors, th_rel, th_abs, OL_waittime, proxy, lastStart,
                   motorFrame>>

\* The three proxy writes of StartOne, in program order.
StartWritesAlwaysOpenLoop(axis, position) ==
    IF axis = 0
    THEN << <<"OpenLoop", 1>>, <<"SetpointField", Mul1em3(position)>>,
            <<"FieldControl", 1>> >>
    ELSE << <<"OpenLoop", 1>>, <<"SetpointOpenLoop", position>>,
            <<"FieldControl", 1>> >>

StartWritesFieldControlFirst(axis, position) ==
    IF axis = 0
    THEN << <<"FieldControl", 1>>, <<"OpenLoop", 0>>,
            <<"SetpointField", Mul1em3(position)>> >>
    ELSE << <<"FieldControl", 1>>, <<"OpenLoop", 1>>,
            <<"SetpointOpenLoop", position>> >>

StartWrites(axis, position) ==
    IF axis = 0
    THEN << <<"OpenLoop", 0>>, <<"SetpointField", Mul1em3(position)>>,
            <<"FieldControl", 1>> >>
    ELSE << <<"OpenLoop", 1>>, <<"SetpointOpenLoop", position>>,
            <<"FieldControl", 1>> >>

\* The stored attributes after the writes ws, applied first to last.
RECURSIVE ApplyWrites(_, _)
ApplyWrites(p, ws) ==
    IF ws = <<>> THEN p
    ELSE ApplyWrites([p EXCEPT ![ws[1][1]] = ws[1][2]], Tail(ws))

\* n is the number of proxy writes that succeed: the next one raises.
StartOne(axis, position) ==
    \E n \in WritesDone :
      LET done == SubSeq(StartWrites(axis, position), 1, n)
          m == motors[axis]
      IN
      /\ proxy' = ApplyWrites(proxy, done)
      /\ lastStart' = IF n = 3 THEN [axis |-> axis, position |-> position]
                       ELSE lastStart
      /\ IF n < 3
         THEN /\ motors' = motors
              /\ last' = Obs("StartOne", axis, "DevFailed", 0, <<>>, <<>>, done)
         ELSE IF ~m.present
         THEN /\ motors' = motors
              /\ last' = Obs("StartOne", axis, "KeyError", 0, <<>>, <<>>, done)
         ELSE IF ~m.has_target
         THEN \* move_start_time is assigned, then reading "target" raises
              /\ motors' = [motors EXCEPT ![axis].move_start_time = now]
              /\ last' = Obs("StartOne", axis, "KeyError", 0, <<>>, <<>>, done)
         ELSE /\ motors' = [motors EXCEPT ![axis] = StartedRecord(m, now, position)]
              /\ last' = Obs("StartOne", axis, "None", 0, <<>>, <<>>, done)
      /\ UNCHANGED <<now, th_rel, th_abs, OL_waittime, motorFrame>>

StopOne(axis) ==
    /\ IF axis = 0
       THEN \E ok \in Outcomes, f \in Fields :
              IF ~ok
              THEN /\ motors' = motors
                   /\ last' = Obs("StopOne", axis, "DevFailed", 0,
                                  <<"MagneticField">>, <<>>, <<>>)
              ELSE IF ~motors[axis].present
              THEN /\ motors' = motors
                   /\ last' = Obs("StopOne", axis, "KeyError", 0,
                                  <<"MagneticField">>, <<f>>, <<>>)
              ELSE /\ motors' = [motors EXCEPT ![axis] =
                         StoppedRecord(motors[axis], Mul1e3(f))]
                   /\ last' = Obs("StopOne", axis, "value", Mul1e3(f),
                                  <<"MagneticField">>, <<f>>, <<>>)
       ELSE \E ok \in Outcomes :
              /\ motors' = motors
              /\ last' = IF ok
                         THEN Obs("StopOne", axis, "value", proxy.SetpointOpenLoop,
                                  <<"SetpointOpenLoop">>, <<>>, <<>>)
                         ELSE Obs("StopOne", axis, "DevFailed", 0,
                                  <<"SetpointOpenLoop">>, <<>>, <<>>)
    /\ UNCHANGED <<now, th_rel, th_abs, OL_waittime, proxy, lastStart, motorFrame>>

AbortOne(axis) ==
    /\ last' = Obs("AbortOne", axis, "None", 0, <<>>, <<>>, <<>>)
    /\ UNCHANGED <<now, motors, th_rel, th_abs, OL_waittime, proxy, lastStart,
                   motorFrame>>

setCL_threshold_rel(value) ==
    /\ th_rel' = value
    /\ last' = Obs("setCL_threshold_rel", -1, "None", 0, <<>>, <<>>, <<>>)
    /\ UNCHANGED <<now, motors, th_abs, OL_waittime, proxy, lastStart, motorFrame>>

setCL_threshold_abs(value) ==
    /\ th_abs' = value
    /\ last' = Obs("setCL_threshold_abs", -1, "None", 0, <<>>, <<>>, <<>>)
    /\ UNCHANGED <<now, motors, th_rel, OL_waittime, proxy, lastStart, motorFrame>>

setOL_waittime(value) ==
    /\ OL_waittime' = value
    /\ last' = Obs("setOL_waittime", -1, "None", 0, <<>>, <<>>, <<>>)
    /\ UNCHANGED <<now, motors, th_rel, th_abs, proxy, lastStart, motorFrame>>

----------------------------------------------------------------------------
(* SendToCtrl: a command is a sequence of characters *)

UpperLetters ==
    <<"A", "B", "C", "D", "E", "F", "G", "H", "I", "J", "K", "L", "M",
      "N", "O", "P", "Q", "R", "S", "T", "U", "V", "W", "X", "Y", "Z">>

LowerLetters ==
    <<"a", "b", "c", "d", "e", "f", "g", "h", "i", "j", "k", "l", "m",
      "n", "o", "p", "q", "r", "s", "t", "u", "v", "w", "x", "y", "z">>

\* str.lower(), one character
LowerChar(c) ==
    IF \E i \in 1..Len(UpperLetters) : UpperLetters[i] = c
    THEN LowerLetters[CHOOSE i \in 1..Len(UpperLetters) : UpperLetters[i] = c]
    ELSE c

Lower(s) == [i \in 1..Len(s) |-> LowerChar(s[i])]

\* cmd.split(" ")[0]: the characters before the first space
FirstWord(s) ==
    IF \E i \in 1..Len(s) : s[i] = " "
    THEN SubSeq(s, 1, (CHOOSE i \in 1..Len(s) :
                         s[i] = " " /\ \A j \in 1..(i - 1) : s[j] # " ") - 1)
    ELSE s

\* cmd.split(" ")[0].lower()
Mode(cmd) == Lower(FirstWord(cmd))

Enable == <<"e", "n", "a", "b", "l", "e">>
Disable == <<"d", "i", "s", "a", "b", "l", "e">>

InvalidCommandReply == "ERROR: Invalid command requested."

\* "enable", "Enable 1", "DISABLE", "disabled", " enable", ""
Commands ==
    { Enable,
      <<"E", "n", "a", "b", "l", "e", " ", "1">>,
      <<"D", "I", "S", "A", "B", "L", "E">>,
      <<"d", "i", "s", "a", "b", "l", "e", "d">>,
      <<" ", "e", "n", "a", "b", "l", "e">>,
      <<>> }

SendToCtrl(cmd) ==
    /\ IF Mode(cmd) \in {Enable, Disable}
       THEN \E ok \in Outcomes :
              LET v == IF Mode(cmd) = Enable THEN 1 ELSE 0 IN
              IF ok
              THEN /\ proxy' = [proxy EXCEPT !.FieldControl = v]
                   /\ last' = Obs("SendToCtrl", -1, "None", 0, <<>>, <<>>,
                                  << <<"FieldControl", v>> >>)
              ELSE /\ proxy' = proxy
                   /\ last' = Obs("SendToCtrl", -1, "DevFailed", 0, <<>>, <<>>, <<>>)
       ELSE /\ proxy' = proxy
            /\ last' = Obs("SendToCtrl", -1, InvalidCommandReply, 0, <<>>, <<>>, <<>>)
    /\ UNCHANGED <<now, motors, th_rel, th_abs, OL_waittime, lastStart, motorFrame>>

----------------------------------------------------------------------------

\* The handlers of one axis, called in any order.
AxisHandlers(axis) ==
    \/ AddDevice(axis)
    \/ DeleteDevice(axis)
    \/ StateOne(axis)
    \/ \E position \in Positions(axis) : StartOne(axis, position)
    \/ StopOne(axis)
    \/ AbortOne(axis)

\* Both axes: the motion handlers and the clock.
Next ==
    \/ Tick
    \/ \E axis \in Axes : AxisHandlers(axis)

Spec == InitReliable /\ [][Next]_vars

\* The closed-loop axis alone, with its thresholds.
NextClosedLoop ==
    \/ Tick
    \/ AxisHandlers(0)
    \/ ReadOne(0)
    \/ \E value \in ThRelValues : setCL_threshold_rel(value)
    \/ \E value \in ThAbsValues : setCL_threshold_abs(value)

SpecClosedLoop == Init /\ [][NextClosedLoop]_vars

\* The open-loop axis alone, with its wait time.
NextOpenLoop ==
    \/ Tick
    \/ AxisHandlers(1)
    \/ ReadOne(1)
    \/ \E value \in OLWaitValues : setOL_waittime(value)

SpecOpenLoop == Init /\ [][NextOpenLoop]_vars

\* The handlers that talk to the proxy, at one instant, with a proxy that
\* stores what is written and never raises.
NextProxy ==
    \/ \E axis \in Axes : AddDevice(axis)
    \/ \E axis \in Axes : ReadOne(axis)
    \/ \E axis \in Axes : \E position \in Positions(axis) : StartOne(axis, position)
    \/ \E axis \in Axes : StopOne(axis)
    \/ \E cmd \in Commands : SendToCtrl(cmd)

SpecProxy == InitReliable /\ [][NextProxy]_vars

\* Both axes at one instant, with a proxy that may raise.
NextInstant == \E axis \in Axes : AxisHandlers(axis)

SpecInstant == Init /\ [][NextInstant]_vars

\* Both axes with the clock and the custom commands, the proxy never
\* raising; the open-loop axis is commanded to one position (A).
DevicePositions == {5000}

NextDevice ==
    \/ Tick
    \/ AxisHandlers(0)
    \/ AddDevice(1)
    \/ DeleteDevice(1)
    \/ StateOne(1)
    \/ \E position \in DevicePositions : StartOne(1, position)
    \/ StopOne(1)
    \/ AbortOne(1)
    \/ \E axis \in Axes : ReadOne(axis)
    \/ \E cmd \in Commands : SendToCtrl(cmd)

SpecDevice == InitReliable /\ [][NextDevice]_vars

----------------------------------------------------------------------------
(* Counter controller (LakeshoreF41TangoCounterController) *)

\* Left alone by every handler of the counter controller.
counterFrame ==
    <<now, motors, th_rel, th_abs, OL_waittime, proxy, proxy_fails, lastStart>>

\* Acquisition times passed to LoadOne (ms); float division by 0.2 is exact
\* for each of them.
LoadValues == {0, 200, 400, 1000, 2000}

\* The replies of the socket device to FETC:BUFF:DC?: the field values of
\* the buffered samples.
Buffers == {<<101>>, <<0, 101>>}

\* Positional parameters of fetch_data besides self: def fetch_data(self, bufstr)
FetchDataParams == 1

\* Arguments StateOne passes: self.fetch_data()
FetchDataArgs == 0

\* Python binds a call only when every required parameter has an argument;
\* otherwise the call raises TypeError before the body runs.
CallBinds(nargs, nparams) == nargs = nparams

\* The module imports State, the controller classes, datetime, DeviceProxy
\* and time: the name np used by fetch_data is not defined.
NumpyImported == FALSE

\* int(value / 0.2)
SamplesFor(value) == value \div 200

CounterObs(op, axis, ret, value, writes) ==
    Obs(op, axis, ret, value, <<>>, <<>>, writes)

\* seq[:n]
Prefix(seq, n) == SubSeq(seq, 1, Min(n, Len(seq)))

GetAxisPar(axis, par) ==
    /\ last' = IF par = "shape"
               THEN CounterObs("Counter.GetAxisPar", axis, "value", <<npts>>, <<>>)
               ELSE CounterObs("Counter.GetAxisPar", axis, "None", 0, <<>>)
    /\ UNCHANGED <<counterFrame, counterVars>>

\* The body of fetch_data, run with the reply buf: each call appends one list
\* of time stamps and one list of field values.
FetchedTimestamps(buf) == Append(timestamps, [i \in 1..Len(buf) |-> i])
FetchedFieldValues(buf) == Append(field_values, buf)

CounterStateOne(axis) ==
    /\ IF ~acquire
       THEN /\ last' = CounterObs("Counter.StateOne", axis, "ON", 0, <<>>)
            /\ UNCHANGED counterVars
       ELSE IF ~CallBinds(FetchDataArgs, FetchDataParams)
       THEN /\ last' = CounterObs("Counter.StateOne", axis, "TypeError", 0, <<>>)
            /\ UNCHANGED counterVars
       ELSE \E ok \in Outcomes, buf \in Buffers :
              IF ~ok
              THEN /\ last' = CounterObs("Counter.StateOne", axis, "DevFailed", 0,
                                         <<"FETC:BUFF:DC?">>)
                   /\ UNCHANGED counterVars
              ELSE IF ~NumpyImported
              THEN /\ last' = CounterObs("Counter.StateOne", axis, "NameError", 0,
                                         <<"FETC:BUFF:DC?">>)
                   /\ UNCHANGED counterVars
              ELSE /\ timestamps' = FetchedTimestamps(buf)
                   /\ field_values' = FetchedFieldValues(buf)
                   /\ npts' = npts
                   /\ IF Len(FetchedFieldValues(buf)) >= npts
                      THEN /\ acquire' = FALSE
                           /\ last' = CounterObs("Counter.StateOne", axis, "ON", 0,
                                                 <<"FETC:BUFF:DC?">>)
                      ELSE /\ acquire' = acquire
                           /\ last' = CounterObs("Counter.StateOne", axis, "MOVING",
                                                 0, <<"FETC:BUFF:DC?">>)
    /\ UNCHANGED counterFrame

CounterReadOne(axis) ==
    /\ last' = IF axis = 0
               THEN CounterObs("Counter.ReadOne", axis, "value",
                               Prefix(field_values, npts), <<>>)
               ELSE CounterObs("Counter.ReadOne", axis, "value",
                               Prefix(timestamps, npts), <<>>)
    /\ UNCHANGED <<counterFrame, counterVars>>

LoadOne(axis, value) ==
    /\ npts' = SamplesFor(value)
    /\ last' = CounterObs("Counter.LoadOne", axis, "None", 0, <<>>)
    /\ UNCHANGED <<counterFrame, acquire, field_values, timestamps>>

CounterStartOne(axis) ==
    /\ last' = CounterObs("Counter.StartOne", axis, "None", 0, <<>>)
    /\ UNCHANGED <<counterFrame, counterVars>>

StartAll ==
    /\ \E ok \in Outcomes :
         IF ok
         THEN /\ timestamps' = <<>>
              /\ field_values' = <<>>
              /\ acquire' = TRUE
              /\ last' = CounterObs("Counter.StartAll", -1, "None", 0,
                                    <<"FETC:BUFF:CLE">>)
         ELSE /\ UNCHANGED <<timestamps, field_values, acquire>>
              /\ last' = CounterObs("Counter.StartAll", -1, "DevFailed", 0, <<>>)
    /\ UNCHANGED <<counterFrame, npts>>

CounterStopOne(axis) ==
    /\ acquire' = FALSE
    /\ last' = CounterObs("Counter.StopOne", axis, "None", 0, <<>>)
    /\ UNCHANGED <<counterFrame, npts, field_values, timestamps>>

NextCounter ==
    \/ \E axis \in Axes : \E par \in {"shape", "offset"} : GetAxisPar(axis, par)
    \/ \E axis \in Axes : CounterStateOne(axis)
    \/ \E axis \in Axes : CounterReadOne(axis)
    \/ \E axis \in Axes : \E value \in LoadValues : LoadOne(axis, value)
    \/ \E axis \in Axes : CounterStartOne(axis)
    \/ StartAll
    \/ \E axis \in Axes : CounterStopOne(axis)

SpecCounter == Init /\ [][NextCounter]_vars

----------------------------------------------------------------------------
(* Claims *)

\* A StateOne(axis) poll has just returned.
Polled(axis) == last.op = "StateOne" /\ last.axis = axis

\* The step is a StateOne(axis) poll.
Polls(axis) == last'.op = "StateOne" /\ last'.axis = axis

\* |pos - target| is within the relative and the absolute threshold.
WithinBoth(pos, target, rel, abs) ==
    /\ ~DiffRelExceeds(Abs(pos - target), target, rel)
    /\ Abs(pos - target) <= abs

\* C1: StateOne(0) on a moving axis declares the target reached (ON after the
\* single position read, is_moving cleared, StopOne not called) exactly when
\* the deviation |pos - target| is within both the relative and the absolute
\* threshold; a poll that returns MOVING saw a deviation outside one of them.
C1_ReachedOnlyWithinBoth ==
    /\ (Polled(0) /\ last.ret = "ON" /\ Len(last.reads) = 1)
         => /\ ~motors[0].is_moving
            /\ WithinBoth(Mul1e3(last.fields[1]), motors[0].target,
                          th_rel, th_abs)
    /\ (Polled(0) /\ last.ret = "MOVING")
         => ~WithinBoth(Mul1e3(last.fields[1]), motors[0].target, th_rel, th_abs)


\* The poll read the position once at least, and the code's test found it
\* outside the threshold window of the target held before the poll.
PollOutside ==
    /\ Len(last'.fields) >= 1
    /\ OutsideThreshold(Mul1e3(last'.fields[1]), motors[0].target, th_rel, th_abs)

\* Time since the last StartOne(axis), at the poll.
Elapsed(axis) == now - motors[axis].move_start_time

\* StateOne(0) gave up: it called StopOne(0), whose field read is the second
\* read of the poll, and returned ON with is_moving cleared.
GaveUp == last'.ret = "ON" /\ Len(last'.reads) = 2 /\ ~motors'[0].is_moving

\* An idle axis with a complete record is reported ON, and is_moving is set
\* by nothing but a StartOne of that axis.
IdleUntilStart(axis) ==
    /\ (Complete(axis) /\ ~motors[axis].is_moving /\ Polls(axis))
           => last'.ret = "ON"
    /\ (~motors[axis].is_moving /\ motors'[axis].is_moving)
           => (last'.op = "StartOne" /\ last'.axis = axis)

\* C2 as stated: on a moving axis 0 whose position is outside the window (and
\* no proxy read raising), StateOne returns MOVING while the elapsed time is
\* not greater than the timeout, and gives up only when it is strictly
\* greater; afterwards StateOne(0) returns ON until the next StartOne(0).
C2_MovingUpToTimeout ==
    [][ /\ (motors[0].is_moving /\ Polls(0) /\ PollOutside /\ last'.ret # "FAULT")
            => IF Elapsed(0) <= Timeout
               THEN last'.ret = "MOVING" /\ motors' = motors
               ELSE GaveUp
        /\ IdleUntilStart(0) ]_vars

\* C2 as amended: MOVING while the elapsed time is strictly less than the
\* timeout; the give-up (StopOne(0), ON) happens as soon as the elapsed time
\* is equal to or greater than the timeout; afterwards StateOne(0) returns ON
\* for as long as the record stays complete, until the next StartOne(0).
C2_MovingBeforeTimeout ==
    [][ /\ (motors[0].is_moving /\ Polls(0) /\ PollOutside /\ last'.ret # "FAULT")
            => IF Elapsed(0) < Timeout
               THEN last'.ret = "MOVING" /\ motors' = motors
               ELSE GaveUp
        /\ IdleUntilStart(0) ]_vars

\* A poll gave up exactly at the timeout.
C2_Witness ==
    /\ Polled(0) /\ last.ret = "ON" /\ Len(last.reads) = 2
    /\ ~motors[0].is_moving
    /\ now - motors[0].move_start_time = Timeout

\* C3: a StateOne(1) poll of a moving open-loop axis returns MOVING exactly
\* when now < move_end_time[1], changing nothing; otherwise it clears
\* is_moving[1] and returns ON.  It reads no proxy attribute.
C3_OpenLoopByEndTime ==
    [][ (motors[1].is_moving /\ Polls(1))
          => /\ last'.reads = <<>>
             /\ last'.fields = <<>>
             /\ IF now < motors[1].move_end_time
                THEN last'.ret = "MOVING" /\ motors' = motors
                ELSE /\ last'.ret = "ON"
                     /\ motors' = [motors EXCEPT ![1].is_moving = FALSE] ]_vars

\* A poll at the very end time of an open-loop move returned ON.
C3_Witness ==
    /\ Polled(1) /\ last.ret = "ON"
    /\ now = motors[1].move_end_time
    /\ motors[1].move_start_time < now

\* C4: a StartOne that completes sets move_start_time to now and
\* move_end_time to now + min(max(1 s, 3 s * |previous target - position|),
\* 10 s); a moving axis always has 1 s <= end - start <= 10 s; a StartOne to
\* the current target gives a 1 s move.
C4_MoveTimes ==
    /\ [](\A a \in Axes :
            motors[a].is_moving
              => /\ motors[a].move_end_time - motors[a].move_start_time >= 1000
                 /\ motors[a].move_end_time - motors[a].move_start_time <= 10000)
    /\ [][ \A a \in Axes :
             (last'.op = "StartOne" /\ last'.axis = a /\ last'.ret = "None")
               => LET p == lastStart'.position
                      d == 3 * Abs(motors[a].target - p)
                      c == IF d < 1000 THEN 1000 ELSE IF d > 10000 THEN 10000 ELSE d
                  IN /\ motors'[a].move_start_time = now
                     /\ motors'[a].move_end_time = now + c
                     /\ motors'[a].is_moving
                     /\ motors'[a].target = p
                     /\ (motors[a].target = p => c = 1000) ]_vars

\* A completed StartOne whose move time is neither clamped to 1 s nor to 10 s.
C4_Witness ==
    /\ last.op = "StartOne" /\ last.ret = "None" /\ last.axis = 1
    /\ motors[1].is_moving
    /\ motors[1].move_start_time > 0
    /\ motors[1].move_end_time - motors[1].move_start_time = 3000

\* The controller state a poll leaves alone.
PollChangesNothing ==
    /\ motors' = motors
    /\ proxy' = proxy
    /\ <<th_rel, th_abs, OL_waittime>>' = <<th_rel, th_abs, OL_waittime>>

\* C5: whenever is_moving[axis] is false, StateOne(axis) returns ON, reads no
\* proxy attribute and changes no controller state.
C5_IdleIsOn ==
    [][ \A a \in Axes :
          (motors[a].present /\ motors[a].is_moving = FALSE /\ Polls(a))
            => /\ last'.ret = "ON"
               /\ last'.reads = <<>>
               /\ PollChangesNothing ]_vars

\* C6: a StateOne(1) poll of a moving open-loop axis returns MOVING at times
\* before the time of the last StartOne(1) plus OL_waittime, and ON afterwards.
C6_MovingOnlyWithinWaitTime ==
    [][ (motors[1].is_moving /\ Polls(1))
          => IF now < motors[1].move_start_time + OL_waittime
             THEN last'.ret = "MOVING"
             ELSE last'.ret = "ON" ]_vars

\* The time by which a started move is reported finished: the timeout for
\* the closed loop, the longest move time for the open loop.
Deadline(axis) == IF axis = 0 THEN 20000 ELSE 10000

\* C7: with a proxy that never raises, a StateOne(axis) poll of a moving axis
\* at or after the deadline (20 s from the start for axis 0, 10 s for axis
\* 1) returns ON and leaves is_moving[axis] false, whatever the field is.
C7_FinishedByDeadline ==
    [][ \A a \in Axes :
          (motors[a].is_moving /\ Polls(a) /\ Elapsed(a) >= Deadline(a))
            => (last'.ret = "ON" /\ ~motors'[a].is_moving) ]_vars

\* A closed-loop move that never came within the window was given up by the
\* poll at the timeout.
C7_Witness ==
    /\ Polled(0) /\ last.ret = "ON" /\ Len(last.reads) = 2
    /\ ~motors[0].is_moving
    /\ now - motors[0].move_start_time >= Deadline(0)

\* C8: ReadOne(0) returns 1000 * MagneticField whatever the mode; ReadOne(1)
\* returns the open-loop setpoint when proxy.OpenLoop is 1 and None
\* otherwise; so it returns p when the last StartOne was StartOne(1, p) and
\* None when the last StartOne was a StartOne(0, ...).
C8_ReadOne ==
    /\ (last.op = "ReadOne" /\ last.axis = 0)
         => (last.ret = "value" /\ last.value = 1000 * last.fields[1])
    /\ (last.op = "ReadOne" /\ last.axis = 1)
         => /\ IF proxy.OpenLoop = 1
               THEN last.ret = "value" /\ last.value = proxy.SetpointOpenLoop
               ELSE last.ret = "None"
            /\ lastStart.axis = 1
                 => (last.ret = "value" /\ last.value = lastStart.position)
            /\ lastStart.axis = 0 => last.ret = "None"

\* ReadOne(1) returned the position of the last StartOne(1, p), p not the
\* setpoint the device started with.
C8_Witness ==
    /\ last.op = "ReadOne" /\ last.axis = 1
    /\ lastStart.axis = 1
    /\ last.ret = "value" /\ last.value = 5000

\* C9: SendToCtrl returns a string for every command; enable writes
\* FieldControl = 1, disable writes FieldControl = 0, any other command writes
\* nothing and returns the error string; no axis record changes.
C9_ReturnsString ==
    [][ last'.op = "SendToCtrl"
          => /\ last'.ret \notin {"None"} \cup Exceptions
             /\ last'.writes \in { <<>>, << <<"FieldControl", 0>> >>,
                                   << <<"FieldControl", 1>> >> }
             /\ last'.writes = <<>>
                  => (last'.ret = InvalidCommandReply /\ proxy' = proxy)
             /\ motors' = motors ]_vars

\* C10: a counter StateOne poll returns ON when the acquire flag is false;
\* while acquiring it fetches data and returns MOVING with fewer than npts
\* field values collected, and ON with the flag cleared otherwise.
C10_CounterPoll ==
    last.op = "Counter.StateOne"
        => \/ last.ret = "ON" /\ ~acquire
           \/ last.ret = "MOVING" /\ acquire /\ Len(field_values) < npts
           \/ last.ret = "DevFailed"

\* The step is a StopOne(0) call on an axis that has a record, whose field
\* read did not raise.
StopsZero ==
    /\ motors[0].present
    /\ last'.op = "StopOne" /\ last'.axis = 0 /\ last'.ret # "DevFailed"

\* Axis 0 is stopped with the field reading f: target is 1000 * f, is_moving
\* is false, the move times and the other axis are as before.
StoppedAt(f) ==
    /\ motors'[0].has_target /\ motors'[0].target = 1000 * f
    /\ ~motors'[0].is_moving
    /\ motors'[0].move_start_time = motors[0].move_start_time
    /\ motors'[0].move_end_time = motors[0].move_end_time
    /\ motors'[1] = motors[1]

\* C11: StopOne(0) reads the field once, sets target[0] to 1000 * the field,
\* clears is_moving[0] and returns that value, leaving the move times as they
\* were; the StopOne(0) of a timed-out poll does the same with the second
\* reading of the poll; and in the state this leaves (a complete record,
\* is_moving false) StateOne(0) returns ON.
C11_StopOneZero ==
    [][ /\ StopsZero
            => /\ last'.reads = <<"MagneticField">>
               /\ Len(last'.fields) = 1
               /\ last'.ret = "value"
               /\ last'.value = 1000 * last'.fields[1]
               /\ StoppedAt(last'.fields[1])
        /\ (motors[0].is_moving /\ Polls(0) /\ GaveUp)
            => /\ Len(last'.fields) = 2
               /\ StoppedAt(last'.fields[2])
        /\ (Complete(0) /\ ~motors[0].is_moving /\ Polls(0))
            => (last'.ret = "ON" /\ motors' = motors) ]_vars

\* StateOne(0) returned ON without a read after a started move was stopped:
\* the target is a measured field, not the position the last StartOne(0)
\* commanded.
C11_Witness ==
    /\ Polled(0) /\ last.ret = "ON" /\ last.reads = <<>>
    /\ lastStart.axis = 0
    /\ motors[0].move_end_time > 0
    /\ motors[0].target \notin Positions(0)
    /\ motors[0].target # lastStart.position

\* A proxy read of the poll raised: it returned no value.
PollReadRaised == Len(last'.fields) < Len(last'.reads)

\* C12: when a proxy read raises during StateOne on a moving axis 0 (the
\* position read, or the field read of StopOne on the timeout path), the
\* poll returns FAULT and changes no axis record, so the axis stays
\* is_moving; FAULT is returned in no other case, and a poll of a moving axis
\* whose reads succeed returns MOVING or ON.  StateOne on an axis without a
\* record raises KeyError instead of returning FAULT.
C12_FaultOnRaisingRead ==
    [][ /\ (Polls(0) /\ PollReadRaised)
            => /\ last'.ret = "FAULT"
               /\ motors' = motors
               /\ motors'[0].is_moving
        /\ \A a \in Axes :
             (Polls(a) /\ last'.ret = "FAULT")
               => /\ a = 0 /\ Complete(0) /\ motors[0].is_moving
                  /\ PollReadRaised
                  /\ Len(last'.reads) \in {1, 2}
        /\ (Complete(0) /\ motors[0].is_moving /\ Polls(0) /\ ~PollReadRaised)
            => last'.ret \in {"MOVING", "ON"}
        /\ \A a \in Axes :
             (~motors[a].present /\ Polls(a))
               => (last'.ret = "KeyError" /\ motors' = motors) ]_vars

\* The field read of StopOne raised on the timeout path: FAULT, still moving.
C12_Witness ==
    /\ Polled(0) /\ last.ret = "FAULT"
    /\ last.reads = <<"MagneticField", "MagneticField">>
    /\ Len(last.fields) = 1
    /\ motors[0].is_moving
    /\ now - motors[0].move_start_time >= Timeout

\* The writes the claim lists for StartOne(a, p): mode, setpoint, FieldControl.
ThreeWrites(a, p) ==
    << <<"OpenLoop", IF a = 0 THEN 0 ELSE 1>>,
       IF a = 0 THEN <<"SetpointField", p \div 1000>>
                ELSE <<"SetpointOpenLoop", p>>,
       <<"FieldControl", 1>> >>

\* C13: StartOne(axis, position) issues the three writes mode, setpoint,
\* FieldControl = 1 in this order, stopping at the first that raises; the
\* device holds what was written; the axis record changes only when all
\* three were issued, so a raising write leaves every axis record (is_moving
\* included) as it was.
C13_ThreeWritesThenRecord ==
    [][ \A a \in Axes :
          (last'.op = "StartOne" /\ last'.axis = a)
            => LET w == last'.writes IN
               /\ Len(w) <= 3
               /\ \E p \in Positions(a) :
                    /\ w = SubSeq(ThreeWrites(a, p), 1, Len(w))
                    /\ Len(w) = 3 => lastStart' = [axis |-> a, position |-> p]
               /\ (Len(w) = 3) <=> (last'.ret # "DevFailed")
               /\ \A i \in 1..Len(w) :
                    (\A j \in (i + 1)..Len(w) : w[j][1] # w[i][1])
                      => proxy'[w[i][1]] = w[i][2]
               /\ \A attr \in DOMAIN proxy :
                    (\A i \in 1..Len(w) : w[i][1] # attr)
                      => proxy'[attr] = proxy[attr]
               /\ last'.ret = "DevFailed" => motors' = motors
               /\ motors' # motors => Len(w) = 3
               /\ (last'.ret = "None")
                    => (motors'[a].is_moving /\ motors'[a].target = lastStart'.position)
      ]_vars

\* StartOne(0, p) raised at its third write while axis 0 was moving to
\* another target: the device has the new setpoint, the record the old move.
C13_Witness ==
    /\ last.op = "StartOne" /\ last.axis = 0 /\ last.ret = "DevFailed"
    /\ Len(last.writes) = 2
    /\ motors[0].is_moving
    /\ motors[0].target # 1000 * last.writes[2][2]
    /\ proxy.SetpointField = last.writes[2][2]

\* The step is StopOne(1) or an AbortOne.
StopsOneOrAborts ==
    \/ last'.op = "AbortOne"
    \/ last'.op = "StopOne" /\ last'.axis = 1

\* The last call was an abort (or, for axis 1, a stop) of a move of the
\* axis that is still marked as moving.
StoppedOrAborted(axis) ==
    /\ last.axis = axis
    /\ last.op \in (IF axis = 1 THEN {"AbortOne", "StopOne"} ELSE {"AbortOne"})
    /\ Complete(axis) /\ motors[axis].is_moving

\* C14: StopOne(1) and AbortOne(axis) change no axis record (nor the
\* settings or the device).  An open-loop move polled right after being
\* stopped or aborted is reported MOVING exactly while now < move_end_time[1];
\* a closed-loop move polled right after being aborted is reported MOVING
\* unless the field is within the threshold window (the relative and the
\* absolute threshold) of the target or the timeout has elapsed.
C14_StopAbortChangeNothing ==
    [][ /\ StopsOneOrAborts
            => /\ motors' = motors
               /\ proxy' = proxy
               /\ <<th_rel, th_abs, OL_waittime>>' = <<th_rel, th_abs, OL_waittime>>
        /\ (StoppedOrAborted(1) /\ Polls(1))
            => ((last'.ret = "MOVING") <=> (now < motors[1].move_end_time))
        /\ (StoppedOrAborted(0) /\ Polls(0) /\ Len(last'.fields) >= 1)
            => \/ last'.ret = "MOVING"
               \/ WithinBoth(Mul1e3(last'.fields[1]), motors[0].target,
                             th_rel, th_abs)
               \/ Elapsed(0) >= Timeout ]_vars

\* The value the writes w leave in attribute attr of the device p.
AfterWrites(p, w, attr) ==
    IF \E i \in 1..Len(w) : w[i][1] = attr
    THEN w[CHOOSE i \in 1..Len(w) :
             w[i][1] = attr /\ \A j \in (i + 1)..Len(w) : w[j][1] # attr][2]
    ELSE p[attr]

\* A step of a handler other than StartOne and SendToCtrl writes nothing; a
\* step of StartOne or SendToCtrl leaves in each attribute the value it last
\* wrote there; SendToCtrl writes neither the mode nor a setpoint.
WritesOnlyByStartAndSend ==
    /\ last'.op \notin {"StartOne", "SendToCtrl"}
        => (last'.writes = <<>> /\ proxy' = proxy)
    /\ last'.op \in {"StartOne", "SendToCtrl"}
        => \A attr \in DOMAIN proxy :
             proxy'[attr] = AfterWrites(proxy, last'.writes, attr)
    /\ last'.op = "SendToCtrl"
        => /\ proxy'.OpenLoop = proxy.OpenLoop
           /\ proxy'.SetpointField = proxy.SetpointField
           /\ proxy'.SetpointOpenLoop = proxy.SetpointOpenLoop

\* The mode and the setpoint of the device are those of the last StartOne.
DeviceAsLastStarted ==
    /\ lastStart.axis = 0
        => /\ proxy.OpenLoop = 0
           /\ 1000 * proxy.SetpointField = lastStart.position
    /\ lastStart.axis = 1
        => /\ proxy.OpenLoop = 1
           /\ proxy.SetpointOpenLoop = lastStart.position

\* C15: only StartOne and SendToCtrl write a proxy attribute; every other
\* handler (AddDevice, DeleteDevice, StateOne with its timeout path, ReadOne,
\* StopOne, AbortOne) issues no write and leaves the device as it is.  So the
\* device holds what StartOne and SendToCtrl wrote: after each of them every
\* attribute has the value last written to it, and the mode and setpoint are
\* those of the most recent StartOne whatever was stopped, aborted or timed
\* out since.
C15_OnlyStartAndSendWrite ==
    /\ [][WritesOnlyByStartAndSend]_vars
    /\ []DeviceAsLastStarted

\* A closed-loop move was given up at the timeout: the record's target is the
\* measured field, the device still has the commanded setpoint and field
\* control on.
C15_Witness ==
    /\ Polled(0) /\ last.ret = "ON" /\ Len(last.reads) = 2
    /\ lastStart.axis = 0
    /\ motors[0].target # lastStart.position
    /\ 1000 * proxy.SetpointField = lastStart.position
    /\ proxy.FieldControl = 1

\* The handlers that take an axis and act on the axis records.
AxisOps == {"AddDevice", "DeleteDevice", "StateOne", "StartOne", "StopOne",
            "AbortOne"}

\* C16: a handler called on one axis leaves the record of the other axis as
\* it is.  StartOne(0, ...) issued while is_moving[1] is true switches the
\* device to closed loop (OpenLoop = 0) and leaves is_moving[1] true, so both
\* axes are is_moving; and StateOne(1) on a moving axis 1 returns MOVING
\* exactly while now < move_end_time[1] although the device is in closed loop.
C16_AxesIndependent ==
    [][ /\ \A a \in Axes :
             (last'.op \in AxisOps /\ last'.axis = a)
               => motors'[1 - a] = motors[1 - a]
        /\ (last'.op = "StartOne" /\ last'.axis = 0 /\ motors[1].is_moving)
            => /\ proxy'.OpenLoop = 0
               /\ motors'[1].is_moving
               /\ last'.ret = "None" => motors'[0].is_moving
        /\ (Complete(1) /\ motors[1].is_moving /\ proxy.OpenLoop = 0 /\ Polls(1))
            => /\ (last'.ret = "MOVING") <=> (now < motors[1].move_end_time)
               /\ last'.ret \in {"MOVING", "ON"}
               /\ motors'[0] = motors[0] ]_vars

\* Both axes are moving, the device is in closed loop after a StartOne(0)
\* issued during the open-loop move, and StateOne(1) then returned MOVING.
C16_Witness ==
    /\ Polled(1) /\ last.ret = "MOVING"
    /\ lastStart.axis = 0 /\ proxy.OpenLoop = 0
    /\ motors[0].is_moving /\ motors[1].is_moving
    /\ motors[0].move_start_time > motors[1].move_start_time

====
